---- MODULE Spec2Model ----
(***************************************************************************)
(* Model of the solana-twitter on-chain program                            *)
(* (programs/solana-twitter/src/lib.rs).                                   *)
(*                                                                         *)
(* The program declares its id and one instruction, `initialize`, whose    *)
(* accounts structure `Initialize` is empty and whose body is `Ok(())`.    *)
(* The host runtime is modelled as far as it is needed to call the         *)
(* program: it owns the account state, hands each transaction a context    *)
(* and collects the result.                                                *)
(***************************************************************************)
EXTENDS Naturals, Sequences, FiniteSets

(* ------------------------------ bounds -------------------------------- *)

\* largest balance an account starts with
MaxLamports == 1
\* largest value of the (one-cell) data of an account
MaxData == 1
\* longest list of accounts a transaction passes to the instruction
MaxAccounts == 2
\* number of invocations the runtime completes in one behaviour
MaxCalls == 3

(* ------------------------------ universe ------------------------------ *)

\* the transactions in flight (one slot per caller)
Callers == {"alice", "bob"}

\* the addresses an account can live at
Keys == {"k1", "k2"}

\* the instruction names a transaction can ask for
Names == {"initialize", "send_tweet"}

SystemProgram == "11111111111111111111111111111111"

\* declare_id!(...): the id the program is built with
declare_id == "H4FBVtcR7yKNWJWnwK6wwEtREYaF5Vi6w9R1uHZXRw7F"

Owners == {SystemProgram, declare_id}

NoAccount == [exists |-> FALSE]

Account(o, l, d) == [exists |-> TRUE, owner |-> o, lamports |-> l, data |-> d]

AccountStates ==
    {NoAccount} \cup
    {Account(o, l, d) : o \in Owners, l \in 0..MaxLamports, d \in 0..MaxData}

\* lists of account addresses of length 0..MaxAccounts
AccountLists == UNION {[1..n -> Keys] : n \in 0..MaxAccounts}

(* ------------------------------ program ------------------------------- *)

\* `pub struct Initialize {}`: the account fields the instruction declares,
\* in order, each with its constraints.  The structure declares none.
Initialize == <<>>

\* the instruction handlers of `pub mod solana_twitter`
Handlers_with_send_tweet == {"initialize", "send_tweet"}

Handlers == {"initialize"}

Ok == [ok |-> TRUE, err |-> "none"]

Err(e) == [ok |-> FALSE, err |-> e]

NoResult == [ok |-> FALSE, err |-> "pending"]

\* Accounts::try_accounts for `Initialize`: the declared fields take the
\* first Len(Initialize) accounts passed, the others stay in
\* remaining_accounts.
Context(signer, ix, passed) ==
    [ix                 |-> ix,
     program_id         |-> declare_id,
     signer             |-> signer,
     accounts           |-> SubSeq(passed, 1, Len(Initialize)),
     remaining_accounts |-> SubSeq(passed, Len(Initialize) + 1, Len(passed))]

NoContext ==
    [ix |-> "none", program_id |-> "none", signer |-> "none",
     accounts |-> <<>>, remaining_accounts |-> <<>>]

VARIABLES
    ID,         \* the static the program id is declared in
    accounts,   \* the runtime's account state: address -> account
    events,     \* the events (logs) emitted so far
    pc,         \* per caller: "idle", "started" (in a handler), "done"
    ctx,        \* per caller: the context of the invocation in flight
    result,     \* per caller: what the invocation returned
    calls,      \* number of invocations completed so far
    accounts0   \* the account state at the start of the behaviour

vars == <<ID, accounts, events, pc, ctx, result, calls, accounts0>>

Init ==
    /\ ID = declare_id
    /\ accounts \in [Keys -> AccountStates]
    /\ events = <<>>
    /\ pc = [c \in Callers |-> "idle"]
    /\ ctx = [c \in Callers |-> NoContext]
    /\ result = [c \in Callers |-> NoResult]
    /\ calls = 0
    /\ accounts0 = accounts

\* The entry point `#[program]` generates: an instruction that names a
\* handler of the module gets its context built and the handler started.
Dispatch(c, ix, passed) ==
    /\ pc[c] = "idle"
    /\ calls + Cardinality({d \in Callers : pc[d] # "idle"}) < MaxCalls
    /\ ix \in Handlers
    /\ Len(passed) >= Len(Initialize)
    /\ pc' = [pc EXCEPT ![c] = "started"]
    /\ ctx' = [ctx EXCEPT ![c] = Context(c, ix, passed)]
    /\ result' = [result EXCEPT ![c] = NoResult]
    /\ UNCHANGED <<ID, accounts, events, calls, accounts0>>

\* The entry point's fallback: an instruction that names no handler of the
\* module is refused without running any code of the program.
Fallback(c, ix, passed) ==
    /\ pc[c] = "idle"
    /\ calls + Cardinality({d \in Callers : pc[d] # "idle"}) < MaxCalls
    /\ ix \notin Handlers
    /\ pc' = [pc EXCEPT ![c] = "done"]
    /\ ctx' = [ctx EXCEPT ![c] = [NoContext EXCEPT !.ix = ix, !.signer = c]]
    /\ result' = [result EXCEPT ![c] = Err("InstructionFallbackNotFound")]
    /\ UNCHANGED <<ID, accounts, events, calls, accounts0>>

(* Variants of the handler, each differing from it by one plausible slip. *)

\* a handler that expects an account and fails without one
initialize_needs_account(c) ==
    /\ pc[c] = "started"
    /\ ctx[c].ix = "initialize"
    /\ pc' = [pc EXCEPT ![c] = "done"]
    /\ result' = [result EXCEPT ![c] =
                     IF Len(ctx[c].remaining_accounts) = 0
                     THEN Err("AccountNotEnoughKeys") ELSE Ok]
    /\ UNCHANGED <<ID, accounts, events, ctx, calls, accounts0>>

\* a handler that allocates an account for the program
initialize_creates_account(c) ==
    /\ pc[c] = "started"
    /\ ctx[c].ix = "initialize"
    /\ pc' = [pc EXCEPT ![c] = "done"]
    /\ result' = [result EXCEPT ![c] = Ok]
    /\ accounts' = [accounts EXCEPT !["k1"] = Account(declare_id, 0, 0)]
    /\ UNCHANGED <<ID, events, ctx, calls, accounts0>>

\* a handler that overwrites the program id
initialize_resets_id(c) ==
    /\ pc[c] = "started"
    /\ ctx[c].ix = "initialize"
    /\ pc' = [pc EXCEPT ![c] = "done"]
    /\ result' = [result EXCEPT ![c] = Ok]
    /\ ID' = SystemProgram
    /\ UNCHANGED <<accounts, events, ctx, calls, accounts0>>

\* a handler with an `init` guard: the first call creates the marker
\* account, a later call finds it and fails
initialize_init_guard(c) ==
    /\ pc[c] = "started"
    /\ ctx[c].ix = "initialize"
    /\ pc' = [pc EXCEPT ![c] = "done"]
    /\ IF accounts["k1"].exists
       THEN /\ result' = [result EXCEPT ![c] = Err("AccountAlreadyInUse")]
            /\ UNCHANGED accounts
       ELSE /\ result' = [result EXCEPT ![c] = Ok]
            /\ accounts' = [accounts EXCEPT !["k1"] = Account(declare_id, 0, 1)]
    /\ UNCHANGED <<ID, events, ctx, calls, accounts0>>

\* a handler that never reaches its return
initialize_spins(c) ==
    /\ pc[c] = "started"
    /\ ctx[c].ix = "initialize"
    /\ UNCHANGED vars

\* a handler that checks the owner of the accounts it is passed
initialize_checks_owner(c) ==
    /\ pc[c] = "started"
    /\ ctx[c].ix = "initialize"
    /\ pc' = [pc EXCEPT ![c] = "done"]
    /\ result' = [result EXCEPT ![c] =
                     IF \A i \in 1..Len(ctx[c].remaining_accounts) :
                            LET a == accounts[ctx[c].remaining_accounts[i]]
                            IN  a.exists /\ a.owner = declare_id
                     THEN Ok ELSE Err("ConstraintOwner")]
    /\ UNCHANGED <<ID, accounts, events, ctx, calls, accounts0>>

\* pub fn initialize(ctx: Context<Initialize>) -> Result<()> { Ok(()) }
initialize(c) ==
    /\ pc[c] = "started"
    /\ ctx[c].ix = "initialize"
    /\ pc' = [pc EXCEPT ![c] = "done"]
    /\ result' = [result EXCEPT ![c] = Ok]
    /\ UNCHANGED <<ID, accounts, events, ctx, calls, accounts0>>

\* The runtime takes the result of a returned invocation and drops its
\* context.
Discard(c) ==
    /\ pc[c] = "done"
    /\ pc' = [pc EXCEPT ![c] = "idle"]
    /\ ctx' = [ctx EXCEPT ![c] = NoContext]
    /\ result' = [result EXCEPT ![c] = NoResult]
    /\ calls' = calls + 1
    /\ UNCHANGED <<ID, accounts, events, accounts0>>

Next ==
    \/ \E c \in Callers, ix \in Names, passed \in AccountLists :
           Dispatch(c, ix, passed)
    \/ \E c \in Callers, ix \in Names, passed \in AccountLists :
           Fallback(c, ix, passed)
    \/ \E c \in Callers : initialize(c)
    \/ \E c \in Callers : Discard(c)

Spec == Init /\ [][Next]_vars

\* A started handler runs to its return: the runtime executes the
\* instruction synchronously.
FairSpec == Spec /\ \A c \in Callers : WF_vars(initialize(c))

(* ------------------------------ properties ---------------------------- *)

\* an invocation of `initialize` that has returned
Returned(c) == pc[c] = "done" /\ ctx[c].ix = "initialize"

\* C1: every invocation of `initialize` returns Ok(()): no returned
\* invocation of it, after any number of earlier invocations, holds an
\* error value.
C1_InitializeReturnsOk ==
    \A c \in Callers : Returned(c) => result[c] = Ok /\ result[c].ok

C1_Witness ==
    \E c \in Callers : Returned(c) /\ result[c] = Ok /\ calls >= 1

\* C2: the step in which `initialize` runs leaves the account state as it
\* was (the same accounts exist, with the same data, owner and balance) and
\* emits no event.
C2_InitializeChangesNothing ==
    [][(\E c \in Callers : pc[c] = "started" /\ pc'[c] = "done")
           => /\ accounts' = accounts
              /\ {k \in Keys : accounts'[k].exists}
                     = {k \in Keys : accounts[k].exists}
              /\ events' = events]_vars

C2_Witness ==
    /\ \E c \in Callers : Returned(c)
    /\ \E k \in Keys : accounts[k].exists
    /\ \E k \in Keys : ~accounts[k].exists
    /\ events = <<>>

\* C3: `initialize` is the only instruction: a handler is only ever started
\* for it, its context holds no declared account (everything passed stays in
\* remaining_accounts), and any other instruction is refused by the entry
\* point without a handler running.
C3_OnlyInitialize ==
    \A c \in Callers :
        /\ pc[c] = "started" =>
               /\ ctx[c].ix = "initialize"
               /\ ctx[c].accounts = <<>>
        /\ pc[c] = "done" /\ ctx[c].ix # "initialize" =>
               result[c] = Err("InstructionFallbackNotFound")
        /\ pc[c] = "done" /\ result[c].ok => ctx[c].ix = "initialize"

C3_Witness ==
    \E c, d \in Callers :
        /\ pc[c] = "started" /\ ctx[c].ix = "initialize"
        /\ Len(ctx[c].remaining_accounts) = MaxAccounts
        /\ pc[d] = "done" /\ ctx[d].ix = "send_tweet"

\* C4: the program id is the declared value in every reachable state, and
\* every context the program is called with carries it.
C4_ProgramIdFixed ==
    /\ ID = declare_id
    /\ \A c \in Callers : pc[c] = "started" => ctx[c].program_id = ID

C4_Witness ==
    /\ calls >= 1
    /\ \E c \in Callers : Returned(c) /\ ID = declare_id

\* C5: `initialize` is a repeatable no-op: whatever the number of
\* invocations completed and in flight, the account state and the event log
\* are those of the start, and each returned invocation succeeded.
C5_RepeatableNoOp ==
    /\ accounts = accounts0
    /\ events = <<>>
    /\ \A c \in Callers : Returned(c) => result[c] = Ok

C5_Witness ==
    /\ calls >= 2
    /\ \E c \in Callers : Returned(c) /\ result[c] = Ok
    /\ accounts = accounts0

\* C6: a started invocation of `initialize` leaves the handler in one step,
\* to its return, and every started invocation eventually returns.
C6_InitializeTerminates ==
    /\ [][\A c \in Callers :
              pc[c] = "started" /\ pc'[c] # "started"
                  => pc'[c] = "done" /\ result'[c] # NoResult]_vars
    /\ \A c \in Callers : (pc[c] = "started") ~> (pc[c] = "done")

C6_Witness ==
    \A c \in Callers : Returned(c) /\ result[c] # NoResult

\* C7: the outcome of `initialize` does not depend on its context: two
\* invocations with different signers and different remaining accounts
\* return the same result, Ok(()), and neither changes the account state.
C7_ContextIndependent ==
    \A c, d \in Callers :
        Returned(c) /\ Returned(d) =>
            /\ result[c] = result[d]
            /\ result[c] = Ok
            /\ accounts = accounts0

C7_Witness ==
    \E c, d \in Callers :
        /\ Returned(c) /\ Returned(d)
        /\ ctx[c].signer # ctx[d].signer
        /\ ctx[c].remaining_accounts # ctx[d].remaining_accounts
        /\ result[c] = result[d]

====
